---- MODULE Spec2Model ----
(***************************************************************************)
(* Deployment worker of the contest platform (backend/app/worker.py).      *)
(*                                                                         *)
(* The worker pops messages from a Redis list, decodes them into jobs and  *)
(* runs, one job at a time, either the deploy pipeline                     *)
(*   load target -> PULLING -> pull -> DEPLOYING -> start container ->     *)
(*   HEALTHCHECKING -> health gate -> ONLINE -> cutover                    *)
(* or the stop handler.  The container engine, the status endpoint of the  *)
(* control plane and the database are environments: each call to them has  *)
(* a nondeterministic outcome.                                             *)
(***************************************************************************)
EXTENDS Integers, Sequences, FiniteSets, TLC

\* Bounds of the model.
MaxSid == 2
MaxQueue == 1
MaxRetry == 3

\* Python's None for an optional integer id (`if not current_id` treats
\* None and 0 alike, ids are positive).
NoId == 0

Sids == 1..MaxSid
AllWorkers == {1, 2}
\* The single worker process of Spec.
Workers == {1}

VARIABLES
    settings,    \* app.core.config.settings, fixed at startup
    queue,       \* the Redis list settings.WORKER_QUEUE_KEY
    containers,  \* the containers of the engine
    current,     \* Project.current_submission_id, per project
    persisted,   \* ProjectSubmission.domain, per submission
    wk           \* per worker process: position and locals of _worker_loop

vars == <<settings, queue, containers, current, persisted, wk>>

----------------------------------------------------------------------------
\* Values

NoDomain == <<>>
NoNetwork == "none"

\* Project.id of the project owning a submission (database content).
ProjectOf(sid) == ((sid + 1) \div 2)
Projects == {ProjectOf(s) : s \in Sids}

\* app.services.project_domain.build_project_domain
build_project_domain(submission_id) == <<"domain", submission_id>>

\* Variant: the name carries a per-launch suffix.
build_container_name_suffixed(submission_id) ==
    <<"project", submission_id, Cardinality(containers)>>

build_container_name(submission_id) == <<"project", submission_id>>

ImageOf(sid) == <<"image", sid>>

NoJob == [action |-> "none", submission_id |-> NoId]
NoTarget == [submission_id |-> NoId, project_id |-> NoId, image_ref |-> <<>>,
             domain |-> NoDomain, current_submission_id |-> NoId]

----------------------------------------------------------------------------
\* Job decoder

\* str.lower() on the action strings of the payloads below.
Lower(s) ==
    CASE s = "DEPLOY" -> "deploy"
      [] s = "Stop" -> "stop"
      [] OTHER -> s

\* A queue payload, by what int() and json.loads do with its text after
\* decode() and strip():
\*   kind "none"          the value None
\*   kind "empty"         empty after strip()
\*   kind "int"           a text int() accepts, of value n
\*   kind "int_overlong"  decimal digits beyond the digit limit of int(),
\*                        where the interpreter has one
\*   kind "invalid"       neither an integer nor JSON
\*   kind "json_overlong" JSON holding an integer literal beyond the digit
\*                        limit
\*   kind "json_deep"     JSON nested beyond the recursion limit
\*   kind "json_other"    valid JSON that is not an object
\*   kind "json_obj"      a JSON object with action `action` and a
\*                        submission_id whose kind is idk:
\*                          "int"      int() returns n (an integer, a finite
\*                                     float, a boolean, a digit string)
\*                          "bad_type" int() raises TypeError (null, a list,
\*                                     the key missing)
\*                          "bad_text" int() raises ValueError (a string that
\*                                     is no integer or is over-long, NaN)
\*                          "inf"      int() raises OverflowError (an infinite
\*                                     float: 1e999, Infinity)
Raw(kind, action, idk, n) == [kind |-> kind, action |-> action, idk |-> idk, n |-> n]

\* The decoder leaves by an exception.
Raised == [action |-> "raise", submission_id |-> NoId]

\* int(text)
IntOfText(raw) ==
    IF raw.kind = "int" THEN [exc |-> "none", value |-> raw.n]
    ELSE [exc |-> "ValueError", value |-> NoId]

\* json.loads(text): the exception it raises and whether the data is a dict.
\* An integer literal is converted with int(), whose ValueError is not a
\* JSONDecodeError.
JsonLoads(raw) ==
    CASE raw.kind = "json_obj" -> [exc |-> "none", isdict |-> TRUE]
      [] raw.kind = "json_other" -> [exc |-> "none", isdict |-> FALSE]
      [] raw.kind \in {"int_overlong", "json_overlong"} ->
            [exc |-> "ValueError", isdict |-> FALSE]
      [] raw.kind = "json_deep" -> [exc |-> "RecursionError", isdict |-> FALSE]
      [] OTHER -> [exc |-> "JSONDecodeError", isdict |-> FALSE]

\* int(submission_id) on data.get("submission_id")
IntOfValue(raw) ==
    CASE raw.idk = "int" -> [exc |-> "none", value |-> raw.n]
      [] raw.idk = "bad_text" -> [exc |-> "ValueError", value |-> NoId]
      [] raw.idk = "inf" -> [exc |-> "OverflowError", value |-> NoId]
      [] OTHER -> [exc |-> "TypeError", value |-> NoId]

\* _parse_queue_item: each except clause catches the exceptions it names and
\* lets the others through.
parse_queue_item(raw) ==
    IF raw.kind \in {"none", "empty"} THEN NoJob
    ELSE IF IntOfText(raw).exc = "none"
    THEN [action |-> "deploy", submission_id |-> IntOfText(raw).value]
    ELSE IF JsonLoads(raw).exc = "JSONDecodeError" THEN NoJob
    ELSE IF JsonLoads(raw).exc # "none" THEN Raised
    ELSE IF ~JsonLoads(raw).isdict THEN NoJob
    ELSE IF IntOfValue(raw).exc \in {"TypeError", "ValueError"} THEN NoJob
    ELSE IF IntOfValue(raw).exc # "none" THEN Raised
    ELSE IF Lower(raw.action) \notin {"deploy", "stop"} THEN NoJob
    ELSE [action |-> Lower(raw.action), submission_id |-> IntOfValue(raw).value]

\* The payloads the producers of this model push.
QueuePayloads ==
    {Raw("int", "", "int", s) : s \in Sids}
    \cup {Raw("json_obj", "stop", "int", s) : s \in Sids}
    \cup {Raw("json_obj", "DEPLOY", "int", MaxSid),
          Raw("json_obj", "launch", "int", MaxSid),
          Raw("json_obj", "deploy", "inf", NoId),
          Raw("invalid", "", "none", NoId)}

----------------------------------------------------------------------------
\* Initial state

\* What _resolve_deploy_network can find (the fields are described at
\* resolve_deploy_network).
NetEnvs ==
    [deployNetwork : {NoNetwork, "traefik"}, netExists : BOOLEAN,
     hostname : BOOLEAN, selfFound : BOOLEAN,
     selfNetworks : {<<>>, <<"traefik", "bridge">>}]

\* What client.patch can do: raise a transport error, or return a response
\* with one of these status codes.
StatusCodes == {100, 200, 204, 302, 400, 500}
Responses == [transport : BOOLEAN, code : StatusCodes]

\* The configurations: the settings a worker never reads (the retry count of
\* a disabled health gate, everything but the token when it is missing) are
\* held at one value.  plane is what stands behind WORKER_API_BASE_URL: the
\* answers the control plane can give to a PATCH, here any of them; net is
\* WORKER_DEPLOY_NETWORK, HOSTNAME and the networks of the engine: what a
\* launch can find, here anything.
SettingsSet ==
    [token : {TRUE}, healthEnabled : {TRUE}, retry : 0..MaxRetry, plane : {Responses},
       net : {NetEnvs}]
    \cup [token : {TRUE}, healthEnabled : {FALSE}, retry : {MaxRetry}, plane : {Responses},
       net : {NetEnvs}]
    \cup [token : {FALSE}, healthEnabled : {TRUE}, retry : {MaxRetry}, plane : {Responses},
       net : {NetEnvs}]

InitWorker ==
    [pc |-> "off", job |-> NoJob, target |-> NoTarget, reports |-> <<>>,
     calls |-> <<>>, attempts |-> 0, responses |-> <<>>, network |-> NoNetwork,
     exc |-> "none", atStart |-> {}]

Init ==
    /\ settings \in SettingsSet
    /\ queue = <<>>
    /\ containers = {}
    /\ current = [p \in Projects |-> NoId]
    /\ persisted = [s \in Sids |-> NoDomain]
    /\ wk = [w \in AllWorkers |-> InitWorker]

----------------------------------------------------------------------------
\* Container engine

\* A container as the engine holds it.  creator is bookkeeping of the model:
\* the worker whose job in progress created it, NoId once that job is over.
Container(target, network, w) ==
    [name |-> build_container_name(target.submission_id),
     image |-> target.image_ref,
     labels |-> [enable |-> TRUE,
                 rule |-> target.domain,
                 network |-> network,
                 submission_id |-> target.submission_id,
                 project_id |-> target.project_id],
     network |-> network,
     creator |-> w]

\* One call to the engine as the model logs it: the operation, the container
\* or image named, the step of the job that made it and whether it raised.
Call(op, name, by, raised) == [op |-> op, name |-> name, by |-> by, raised |-> raised]

Exists(cs, name) == \E c \in cs : c.name = name

\* _remove_container_if_exists: containers.get(name), NotFound -> return,
\* else container.remove(force=True).  fault: the engine call raises
\* something else than NotFound.
remove_container_if_exists(cs, name, fault) ==
    IF fault
    THEN [cs |-> cs, raised |-> TRUE]
    ELSE [cs |-> {c \in cs : c.name # name}, raised |-> FALSE]

\* Variant: self-inspection takes the last network of the worker's container.
resolve_deploy_network_last(env) ==
    IF env.deployNetwork # NoNetwork
    THEN IF env.netExists THEN env.deployNetwork ELSE NoNetwork
    ELSE IF ~env.hostname THEN NoNetwork
    ELSE IF ~env.selfFound THEN NoNetwork
    ELSE IF env.selfNetworks = <<>> THEN NoNetwork
    ELSE env.selfNetworks[Len(env.selfNetworks)]

\* Variant: when the configured network does not exist the resolver goes on
\* to self-inspection.
resolve_deploy_network_falling_back(env) ==
    IF env.deployNetwork # NoNetwork /\ env.netExists THEN env.deployNetwork
    ELSE IF ~env.hostname THEN NoNetwork
    ELSE IF ~env.selfFound THEN NoNetwork
    ELSE IF env.selfNetworks = <<>> THEN NoNetwork
    ELSE Head(env.selfNetworks)

\* _resolve_deploy_network.  env is what the call reads:
\*   deployNetwork settings.WORKER_DEPLOY_NETWORK, NoNetwork when empty
\*   netExists    networks.get(WORKER_DEPLOY_NETWORK) finds the network
\*   hostname     os.environ has a non-empty HOSTNAME
\*   selfFound    containers.get(HOSTNAME) finds the worker's container
\*   selfNetworks the keys of its NetworkSettings.Networks, in order
resolve_deploy_network(env) ==
    IF env.deployNetwork # NoNetwork
    THEN IF env.netExists THEN env.deployNetwork ELSE NoNetwork
    ELSE IF ~env.hostname THEN NoNetwork
    ELSE IF ~env.selfFound THEN NoNetwork
    ELSE IF env.selfNetworks = <<>> THEN NoNetwork
    ELSE Head(env.selfNetworks)

----------------------------------------------------------------------------
\* Status reporter

\* _build_status_payload, with ok: whether the control plane answered the
\* PATCH with a status below 400.
build_status_payload(status, message, error_code, domain, ok) ==
    [status |-> status, status_message |-> message, error_code |-> error_code,
     domain |-> domain, ok |-> ok]

\* The message= literal _process_submission passes with each status
\* (rendered in English).
StatusMessage(status) ==
    CASE status = "PULLING" -> "pulling image"
      [] status = "DEPLOYING" -> "deploying"
      [] status = "HEALTHCHECKING" -> "health checking"
      [] status = "ONLINE" -> "online"
      [] status = "FAILED" -> "deploy failed"

\* The exception handler of _process_submission is entered with exc.
Raise(v, exc) == [v EXCEPT !.pc = "fail_remove", !.exc = exc]

\* _update_status raises: no WORKER_API_TOKEN, the PATCH raises, or the
\* response has status_code >= 400.
update_status_fails(token, transport, code) ==
    \/ ~token
    \/ transport
    \/ code >= 400

\* The outcomes of one callback: TRUE when _update_status returns.
CallbackOutcomes ==
    {~update_status_fails(settings.token, r.transport, r.code) : r \in settings.plane}

\* Variant: a failed callback is logged and the pipeline goes on.
update_status_lenient(w, status, domain, next) ==
    \E ok \in CallbackOutcomes :
        wk' = [wk EXCEPT
                 ![w].reports = Append(@, build_status_payload(status, StatusMessage(status), "", domain, ok)),
                 ![w].pc = next]

\* await _update_status(...) inside the try block: a failed callback raises.
update_status(w, status, domain, next) ==
    \E ok \in CallbackOutcomes :
        LET v == [wk[w] EXCEPT
                    !.reports = Append(@, build_status_payload(status, StatusMessage(status), "", domain, ok))]
        IN wk' = [wk EXCEPT ![w] = IF ok THEN [v EXCEPT !.pc = next]
                                         ELSE Raise(v, "status")]

----------------------------------------------------------------------------
\* Environment

\* A producer pushes a message.  The worker does not look at the queue while
\* it handles a job, so a push during a job is taken as one right after it.
Enqueue ==
    /\ Len(queue) < MaxQueue
    /\ \E w \in Workers : wk[w].pc \in {"off", "idle", "exited", "crashed"}
    /\ \E raw \in QueuePayloads : queue' = Append(queue, raw)
    /\ UNCHANGED <<settings, persisted, containers, current, wk>>

\* The control plane changes the live submission of a project.  A job reads
\* it once, in _load_deploy_target, so a change during a job is taken as one
\* right after it.
SetCurrent ==
    /\ \E w \in Workers : wk[w].pc \in {"off", "idle"}
    /\ \E p \in Projects :
        \E s \in {x \in Sids : ProjectOf(x) = p} \cup {NoId} :
            /\ current[p] # s
            /\ current' = [current EXCEPT ![p] = s]
    /\ UNCHANGED <<settings, persisted, queue, containers, wk>>

----------------------------------------------------------------------------
\* Worker loop

\* Variant: the loop starts without looking at WORKER_API_TOKEN.
WorkerStart_unchecked(w) ==
    /\ wk[w].pc = "off"
    /\ wk' = [wk EXCEPT ![w].pc = "idle"]
    /\ UNCHANGED <<settings, persisted, queue, containers, current>>

\* main() -> _worker_loop(): without WORKER_API_TOKEN the loop returns.
WorkerStart(w) ==
    /\ wk[w].pc = "off"
    /\ wk' = [wk EXCEPT ![w].pc = IF settings.token THEN "idle" ELSE "exited"]
    /\ UNCHANGED <<settings, persisted, queue, containers, current>>

\* The containers with the creator mark of worker w cleared.
Settled(cs, w) ==
    {IF c.creator = w THEN [c EXCEPT !.creator = NoId] ELSE c : c \in cs}

\* Variant: the loop takes the next message while the cutover of the job in
\* progress is still to come.
Dequeue_during_cutover(w) ==
    /\ wk[w].pc \in {"idle", "cleanup_old"}
    /\ queue # <<>>
    /\ queue' = Tail(queue)
    /\ LET job == parse_queue_item(Head(queue))
       IN wk' = [wk EXCEPT ![w] =
                   CASE job = NoJob -> [InitWorker EXCEPT !.pc = "idle"]
                     [] job = Raised ->
                            [InitWorker EXCEPT !.pc = "crashed", !.exc = "decode"]
                     [] OTHER ->
                            [InitWorker EXCEPT
                               !.job = job,
                               !.atStart = containers,
                               !.pc = IF job.action = "deploy" THEN "load" ELSE "stop"]]
    /\ UNCHANGED <<settings, persisted, containers, current>>

\* blpop returns an item; it is decoded and dispatched: no job -> continue,
\* an exception of the decoder leaves the loop.  atStart records the
\* containers the job finds.
Dequeue(w) ==
    /\ wk[w].pc = "idle"
    /\ queue # <<>>
    /\ queue' = Tail(queue)
    /\ LET job == parse_queue_item(Head(queue))
       IN wk' = [wk EXCEPT ![w] =
                   CASE job = NoJob -> [InitWorker EXCEPT !.pc = "idle"]
                     [] job = Raised ->
                            [InitWorker EXCEPT !.pc = "crashed", !.exc = "decode"]
                     [] OTHER ->
                            [InitWorker EXCEPT
                               !.job = job,
                               !.atStart = containers,
                               !.pc = IF job.action = "deploy" THEN "load" ELSE "stop"]]
    /\ UNCHANGED <<settings, persisted, containers, current>>

\* The handler has returned to the `while True` of _worker_loop: the locals
\* of the job are gone.
LoopContinue(w) ==
    /\ wk[w].pc = "returned"
    /\ wk' = [wk EXCEPT ![w] = [InitWorker EXCEPT !.pc = "idle"]]
    /\ containers' = Settled(containers, w)
    /\ UNCHANGED <<settings, persisted, queue, current>>

\* Variant: the domain is derived from the project id.
load_deploy_target_project_domain(w) ==
    /\ wk[w].pc = "load"
    /\ \E row \in {"missing", "no_image", "ok"} :
        LET sid == wk[w].job.submission_id IN
        wk' = [wk EXCEPT ![w] =
                 IF row = "ok"
                 THEN [@ EXCEPT
                         !.pc = "report_pulling",
                         !.target = [submission_id |-> sid,
                                     project_id |-> ProjectOf(sid),
                                     image_ref |-> ImageOf(sid),
                                     domain |-> build_project_domain(ProjectOf(sid)),
                                     current_submission_id |-> current[ProjectOf(sid)]]]
                 ELSE [@ EXCEPT !.pc = "crashed", !.exc = row]]
    /\ UNCHANGED <<settings, persisted, queue, containers, current>>

\* Variant: the target keeps the current_submission_id some earlier job of
\* the project has read.
load_deploy_target_cached(w) ==
    /\ wk[w].pc = "load"
    /\ \E row \in {"missing", "no_image", "ok"} :
        LET sid == wk[w].job.submission_id IN
        \E earlier \in {x \in Sids : ProjectOf(x) = ProjectOf(sid)} \cup {NoId} :
        wk' = [wk EXCEPT ![w] =
                 IF row = "ok"
                 THEN [@ EXCEPT
                         !.pc = "report_pulling",
                         !.target = [submission_id |-> sid,
                                     project_id |-> ProjectOf(sid),
                                     image_ref |-> ImageOf(sid),
                                     domain |-> build_project_domain(sid),
                                     current_submission_id |-> earlier]]
                 ELSE [@ EXCEPT !.pc = "crashed", !.exc = row]]
    /\ UNCHANGED <<settings, persisted, queue, containers, current>>

\* _load_deploy_target, called before the try block of _process_submission:
\* its RuntimeError leaves _process_submission and _worker_loop.
load_deploy_target(w) ==
    /\ wk[w].pc = "load"
    /\ \E row \in {"missing", "no_image", "ok"} :
        LET sid == wk[w].job.submission_id IN
        wk' = [wk EXCEPT ![w] =
                 IF row = "ok"
                 THEN [@ EXCEPT
                         !.pc = "report_pulling",
                         !.target = [submission_id |-> sid,
                                     project_id |-> ProjectOf(sid),
                                     image_ref |-> ImageOf(sid),
                                     domain |-> build_project_domain(sid),
                                     current_submission_id |-> current[ProjectOf(sid)]]]
                 ELSE [@ EXCEPT !.pc = "crashed", !.exc = row]]
    /\ UNCHANGED <<settings, persisted, queue, containers, current>>

ReportPulling(w) ==
    /\ wk[w].pc = "report_pulling"
    /\ update_status(w, "PULLING", NoDomain, "pull")
    /\ UNCHANGED <<settings, persisted, queue, containers, current>>

\* Variant: a failed pull is logged and the launch goes ahead.
docker_pull_ignoring_failure(w) ==
    /\ wk[w].pc = "pull"
    /\ \E ok \in BOOLEAN :
        wk' = [wk EXCEPT
                 ![w].calls = Append(@, Call("pull", wk[w].target.image_ref, "pull", ~ok)),
                 ![w].pc = "report_deploying"]
    /\ UNCHANGED <<settings, persisted, queue, containers, current>>

\* _docker_pull
docker_pull(w) ==
    /\ wk[w].pc = "pull"
    /\ \E ok \in BOOLEAN :
        LET v == [wk[w] EXCEPT !.calls = Append(@, Call("pull", wk[w].target.image_ref, "pull", ~ok))]
        IN wk' = [wk EXCEPT ![w] = IF ok THEN [v EXCEPT !.pc = "report_deploying"]
                                         ELSE Raise(v, "pull")]
    /\ UNCHANGED <<settings, persisted, queue, containers, current>>

ReportDeploying(w) ==
    /\ wk[w].pc = "report_deploying"
    /\ update_status(w, "DEPLOYING", NoDomain, "start_remove")
    /\ UNCHANGED <<settings, persisted, queue, containers, current>>

\* Variant: the launch removes the container of the same name before it
\* resolves the network.
start_container_remove_first(w) ==
    /\ wk[w].pc = "start_remove"
    /\ \E env \in settings.net, fault \in BOOLEAN :
        LET net == resolve_deploy_network(env)
            name == build_container_name(wk[w].target.submission_id)
            r == remove_container_if_exists(containers, name, fault)
            v == [wk[w] EXCEPT !.calls = Append(@, Call("remove", name, "launch", fault))]
        IN /\ containers' = r.cs
           /\ wk' = [wk EXCEPT ![w] =
                       IF r.raised THEN Raise(v, "start")
                       ELSE IF net = NoNetwork THEN Raise(v, "network")
                       ELSE [v EXCEPT !.pc = "start_run", !.network = net]]
    /\ UNCHANGED <<settings, persisted, queue, current>>

\* Variant: the launch removes the container of the live submission.
start_container_remove_live(w) ==
    /\ wk[w].pc = "start_remove"
    /\ \E env \in settings.net, fault \in BOOLEAN :
        LET net == resolve_deploy_network(env)
            t == wk[w].target
            name == build_container_name(IF t.current_submission_id # NoId
                                         THEN t.current_submission_id
                                         ELSE t.submission_id)
            r == remove_container_if_exists(containers, name, fault)
            v == [wk[w] EXCEPT !.calls = Append(@, Call("remove", name, "launch", fault))]
        IN IF net = NoNetwork
           THEN /\ wk' = [wk EXCEPT ![w] = Raise(@, "network")]
                /\ UNCHANGED containers
           ELSE /\ containers' = r.cs
                /\ wk' = [wk EXCEPT ![w] =
                            IF r.raised THEN Raise(v, "start")
                            ELSE [v EXCEPT !.pc = "start_run", !.network = net]]
    /\ UNCHANGED <<settings, persisted, queue, current>>

\* _start_container_sync, first half: resolve the network, then remove a
\* container of the same name.
start_container_remove(w) ==
    /\ wk[w].pc = "start_remove"
    /\ \E env \in settings.net, fault \in BOOLEAN :
        LET net == resolve_deploy_network(env)
            name == build_container_name(wk[w].target.submission_id)
            r == remove_container_if_exists(containers, name, fault)
            v == [wk[w] EXCEPT !.calls = Append(@, Call("remove", name, "launch", fault))]
        IN IF net = NoNetwork
           THEN /\ wk' = [wk EXCEPT ![w] = Raise(@, "network")]
                /\ UNCHANGED containers
           ELSE /\ containers' = r.cs
                /\ wk' = [wk EXCEPT ![w] =
                            IF r.raised THEN Raise(v, "start")
                            ELSE [v EXCEPT !.pc = "start_run", !.network = net]]
    /\ UNCHANGED <<settings, persisted, queue, current>>

\* _start_container_sync, second half: containers.run(image, name=..., ...).
\* The engine refuses a name in use; run = create + start, and a failed
\* start leaves the created container behind.
start_container_run(w) ==
    /\ wk[w].pc = "start_run"
    /\ \E outcome \in {"ok", "create_failed", "start_failed"} :
        LET name == build_container_name(wk[w].target.submission_id)
            conflict == Exists(containers, name)
            v == [wk[w] EXCEPT !.calls = Append(@, Call("run", name, "launch",
                                                        conflict \/ outcome # "ok"))]
        IN IF conflict \/ outcome = "create_failed"
           THEN /\ wk' = [wk EXCEPT ![w] = Raise(v, "start")]
                /\ UNCHANGED containers
           ELSE /\ containers' = containers \cup
                       {Container(wk[w].target, wk[w].network, w)}
                /\ wk' = [wk EXCEPT ![w] =
                            IF outcome = "ok" THEN [v EXCEPT !.pc = "report_healthchecking"]
                            ELSE Raise(v, "start")]
    /\ UNCHANGED <<settings, persisted, queue, current>>

ReportHealthchecking(w) ==
    /\ wk[w].pc = "report_healthchecking"
    /\ update_status(w, "HEALTHCHECKING", NoDomain, "health_check")
    /\ UNCHANGED <<settings, persisted, queue, containers, current>>

\* What GET http://<container_name>:<port><path> can answer: a response
\* with a status code, or a transport error (httpx.HTTPError).
HealthResponses(name) ==
    IF Exists(containers, name)
    THEN {"200", "500", "error"}
    ELSE {"error"}

\* Variant: the disabled gate still makes one GET and passes only on a 200.
health_check_probing(w) ==
    /\ wk[w].pc = "health_check"
    /\ LET seen == wk[w].responses
           passed == seen # <<>> /\ seen[Len(seen)] = "200"
       IN \/ /\ ~settings.healthEnabled
             /\ \E resp \in HealthResponses(build_container_name(wk[w].job.submission_id)) :
                   wk' = [wk EXCEPT ![w] =
                            IF resp = "200"
                            THEN [@ EXCEPT !.attempts = @ + 1, !.pc = "report_online"]
                            ELSE Raise([@ EXCEPT !.attempts = @ + 1], "health")]
          \/ /\ settings.healthEnabled
             /\ ~passed
             /\ Len(seen) < settings.retry
             /\ \E resp \in HealthResponses(build_container_name(wk[w].job.submission_id)) :
                   wk' = [wk EXCEPT ![w].attempts = @ + 1,
                                    ![w].responses = Append(@, resp)]
          \/ /\ settings.healthEnabled
             /\ passed
             /\ wk' = [wk EXCEPT ![w].pc = "report_online", ![w].responses = <<>>]
          \/ /\ settings.healthEnabled
             /\ ~passed
             /\ Len(seen) >= settings.retry
             /\ wk' = [wk EXCEPT ![w] = Raise([@ EXCEPT !.responses = <<>>], "health")]
    /\ UNCHANGED <<settings, persisted, queue, containers, current>>

\* Variant: the gate makes one attempt more than `retries`.
health_check_one_more(w) ==
    /\ wk[w].pc = "health_check"
    /\ LET seen == wk[w].responses
           passed == seen # <<>> /\ seen[Len(seen)] = "200"
       IN \/ /\ ~settings.healthEnabled
             /\ wk' = [wk EXCEPT ![w].pc = "report_online"]
          \/ /\ settings.healthEnabled
             /\ ~passed
             /\ Len(seen) <= settings.retry
             /\ \E resp \in HealthResponses(build_container_name(wk[w].job.submission_id)) :
                   wk' = [wk EXCEPT ![w].attempts = @ + 1,
                                    ![w].responses = Append(@, resp)]
          \/ /\ settings.healthEnabled
             /\ passed
             /\ wk' = [wk EXCEPT ![w].pc = "report_online", ![w].responses = <<>>]
          \/ /\ settings.healthEnabled
             /\ ~passed
             /\ Len(seen) > settings.retry
             /\ wk' = [wk EXCEPT ![w] = Raise([@ EXCEPT !.responses = <<>>], "health")]
    /\ UNCHANGED <<settings, persisted, queue, containers, current>>

\* Variant: a transport error ends the gate at once.
health_check_error_fatal(w) ==
    /\ wk[w].pc = "health_check"
    /\ LET seen == wk[w].responses
           passed == seen # <<>> /\ seen[Len(seen)] = "200"
           broken == seen # <<>> /\ seen[Len(seen)] = "error"
       IN \/ /\ ~settings.healthEnabled
             /\ wk' = [wk EXCEPT ![w].pc = "report_online"]
          \/ /\ settings.healthEnabled
             /\ ~passed /\ ~broken
             /\ Len(seen) < settings.retry
             /\ \E resp \in HealthResponses(build_container_name(wk[w].job.submission_id)) :
                   wk' = [wk EXCEPT ![w].attempts = @ + 1,
                                    ![w].responses = Append(@, resp)]
          \/ /\ settings.healthEnabled
             /\ passed
             /\ wk' = [wk EXCEPT ![w].pc = "report_online", ![w].responses = <<>>]
          \/ /\ settings.healthEnabled
             /\ ~passed
             /\ broken \/ Len(seen) >= settings.retry
             /\ wk' = [wk EXCEPT ![w] = Raise([@ EXCEPT !.responses = <<>>], "health")]
    /\ UNCHANGED <<settings, persisted, queue, containers, current>>

\* _health_check and the `if not ok: raise` of _process_submission.  One
\* step per await of client.get, then one for what the loop does with the
\* answer; responses holds the answers seen by this call (a local of
\* _health_check, gone when it returns), attempts counts the GETs of the job.
health_check(w) ==
    /\ wk[w].pc = "health_check"
    /\ LET seen == wk[w].responses
           passed == seen # <<>> /\ seen[Len(seen)] = "200"
       IN \/ /\ ~settings.healthEnabled
             /\ wk' = [wk EXCEPT ![w].pc = "report_online"]
          \/ /\ settings.healthEnabled
             /\ ~passed
             /\ Len(seen) < settings.retry
             /\ \E resp \in HealthResponses(build_container_name(wk[w].job.submission_id)) :
                   wk' = [wk EXCEPT ![w].attempts = @ + 1,
                                    ![w].responses = Append(@, resp)]
          \/ /\ settings.healthEnabled
             /\ passed
             /\ wk' = [wk EXCEPT ![w].pc = "report_online", ![w].responses = <<>>]
          \/ /\ settings.healthEnabled
             /\ ~passed
             /\ Len(seen) >= settings.retry
             /\ wk' = [wk EXCEPT ![w] = Raise([@ EXCEPT !.responses = <<>>], "health")]
    /\ UNCHANGED <<settings, persisted, queue, containers, current>>

ReportOnline(w) ==
    /\ wk[w].pc = "report_online"
    /\ update_status(w, "ONLINE", wk[w].target.domain, "cleanup_old")
    /\ UNCHANGED <<settings, persisted, queue, containers, current>>

\* Variant: the cutover does not compare current_id with new_id.
cleanup_old_container_no_self_check(w) ==
    /\ wk[w].pc = "cleanup_old"
    /\ LET current_id == wk[w].target.current_submission_id
       IN IF current_id = NoId
          THEN /\ wk' = [wk EXCEPT ![w].pc = "returned"]
               /\ UNCHANGED containers
          ELSE \E fault \in BOOLEAN :
                LET name == build_container_name(current_id)
                    r == remove_container_if_exists(containers, name, fault)
                IN /\ containers' = r.cs
                   /\ wk' = [wk EXCEPT ![w].pc = "returned",
                                       ![w].calls = Append(@, Call("remove", name, "cutover", fault))]
    /\ UNCHANGED <<settings, persisted, queue, current>>

\* Variant: a failed removal of the old container is raised into the
\* exception handler of _process_submission.
cleanup_old_container_raising(w) ==
    /\ wk[w].pc = "cleanup_old"
    /\ LET current_id == wk[w].target.current_submission_id
           new_id == wk[w].job.submission_id
       IN IF current_id = NoId \/ current_id = new_id
          THEN /\ wk' = [wk EXCEPT ![w].pc = "returned"]
               /\ UNCHANGED containers
          ELSE \E fault \in BOOLEAN :
                LET name == build_container_name(current_id)
                    r == remove_container_if_exists(containers, name, fault)
                    v == [wk[w] EXCEPT
                            !.calls = Append(@, Call("remove", name, "cutover", fault))]
                IN /\ containers' = r.cs
                   /\ wk' = [wk EXCEPT ![w] = IF fault THEN Raise(v, "cutover")
                                                ELSE [v EXCEPT !.pc = "returned"]]
    /\ UNCHANGED <<settings, persisted, queue, current>>

\* Variant: the cutover removes every other container of the project.
cleanup_old_container_sweeping(w) ==
    /\ wk[w].pc = "cleanup_old"
    /\ containers' = {c \in containers :
                        \/ c.labels.project_id # wk[w].target.project_id
                        \/ c.name = build_container_name(wk[w].job.submission_id)}
    /\ wk' = [wk EXCEPT ![w].pc = "returned",
                        ![w].calls = Append(@, Call("remove",
                            build_container_name(wk[w].target.current_submission_id),
                            "cutover", FALSE))]
    /\ UNCHANGED <<settings, persisted, queue, current>>

\* Variant: the cutover leaves the old container in place.
cleanup_old_container_keeping(w) ==
    /\ wk[w].pc = "cleanup_old"
    /\ wk' = [wk EXCEPT ![w].pc = "returned"]
    /\ UNCHANGED <<settings, persisted, queue, containers, current>>

\* _cleanup_old_container
cleanup_old_container(w) ==
    /\ wk[w].pc = "cleanup_old"
    /\ LET current_id == wk[w].target.current_submission_id
           new_id == wk[w].job.submission_id
       IN IF current_id = NoId \/ current_id = new_id
          THEN /\ wk' = [wk EXCEPT ![w].pc = "returned"]
               /\ UNCHANGED containers
          ELSE \E fault \in BOOLEAN :
                LET name == build_container_name(current_id)
                    r == remove_container_if_exists(containers, name, fault)
                IN /\ containers' = r.cs
                   /\ wk' = [wk EXCEPT ![w].pc = "returned",
                                       ![w].calls = Append(@, Call("remove", name, "cutover", fault))]
    /\ UNCHANGED <<settings, persisted, queue, current>>

\* Variant: a failure of the removal in the exception handler propagates.
FailRemove_raising(w) ==
    /\ wk[w].pc = "fail_remove"
    /\ \E fault \in BOOLEAN :
        LET name == build_container_name(wk[w].job.submission_id)
            r == remove_container_if_exists(containers, name, fault)
        IN /\ containers' = r.cs
           /\ wk' = [wk EXCEPT ![w].pc = IF fault THEN "crashed" ELSE "fail_report",
                               ![w].calls = Append(@, Call("remove", name, "cleanup", fault))]
    /\ UNCHANGED <<settings, persisted, queue, current>>

\* Variant: the exception handler does not remove the container.
FailRemove_skipped(w) ==
    /\ wk[w].pc = "fail_remove"
    /\ wk' = [wk EXCEPT ![w].pc = "fail_report"]
    /\ UNCHANGED <<settings, persisted, queue, containers, current>>

\* except Exception: await _remove_container(container_name), its own
\* failure logged.
FailRemove(w) ==
    /\ wk[w].pc = "fail_remove"
    /\ \E fault \in BOOLEAN :
        LET name == build_container_name(wk[w].job.submission_id)
            r == remove_container_if_exists(containers, name, fault)
        IN /\ containers' = r.cs
           /\ wk' = [wk EXCEPT ![w].pc = "fail_report",
                               ![w].calls = Append(@, Call("remove", name, "cleanup", fault))]
    /\ UNCHANGED <<settings, persisted, queue, current>>

\* Variant: the exception handler returns without a report.
FailReport_skipped(w) ==
    /\ wk[w].pc = "fail_report"
    /\ wk' = [wk EXCEPT ![w].pc = "returned"]
    /\ UNCHANGED <<settings, persisted, queue, containers, current>>

\* Variant: the final FAILED report goes through the strict reporter.
FailReport_propagating(w) ==
    /\ wk[w].pc = "fail_report"
    /\ \E ok \in CallbackOutcomes :
        wk' = [wk EXCEPT
                 ![w].pc = IF ok THEN "returned" ELSE "crashed",
                 ![w].reports = Append(@, build_status_payload("FAILED", StatusMessage("FAILED"),
                                                               "worker_failed", NoDomain, ok))]
    /\ UNCHANGED <<settings, persisted, queue, containers, current>>

\* except Exception: await _safe_update_status(... FAILED ...)
FailReport(w) ==
    /\ wk[w].pc = "fail_report"
    /\ \E ok \in CallbackOutcomes :
        wk' = [wk EXCEPT
                 ![w].pc = "returned",
                 ![w].reports = Append(@, build_status_payload("FAILED", StatusMessage("FAILED"), "worker_failed",
                                                               NoDomain, ok))]
    /\ UNCHANGED <<settings, persisted, queue, containers, current>>

\* Variant: a failed removal of a stop job is reported as FAILED.
stop_submission_reporting(w) ==
    /\ wk[w].pc = "stop"
    /\ \E fault \in BOOLEAN :
        LET name == build_container_name(wk[w].job.submission_id)
            r == remove_container_if_exists(containers, name, fault)
        IN /\ containers' = r.cs
           /\ wk' = [wk EXCEPT
                       ![w].pc = "returned",
                       ![w].calls = Append(@, Call("remove", name, "stop", fault)),
                       ![w].reports =
                            IF fault
                            THEN Append(@, build_status_payload("FAILED", StatusMessage("FAILED"), "worker_failed",
                                                                NoDomain, TRUE))
                            ELSE @]
    /\ UNCHANGED <<settings, persisted, queue, current>>

\* _stop_submission
stop_submission(w) ==
    /\ wk[w].pc = "stop"
    /\ \E fault \in BOOLEAN :
        LET name == build_container_name(wk[w].job.submission_id)
            r == remove_container_if_exists(containers, name, fault)
        IN /\ containers' = r.cs
           /\ wk' = [wk EXCEPT ![w].pc = "returned",
                               ![w].calls = Append(@, Call("remove", name, "stop", fault))]
    /\ UNCHANGED <<settings, persisted, queue, current>>

process_submission(w) ==
    \/ load_deploy_target(w)
    \/ ReportPulling(w)
    \/ docker_pull(w)
    \/ ReportDeploying(w)
    \/ start_container_remove(w)
    \/ start_container_run(w)
    \/ ReportHealthchecking(w)
    \/ health_check(w)
    \/ ReportOnline(w)
    \/ cleanup_old_container(w)
    \/ FailRemove(w)
    \/ FailReport(w)

worker_loop(w) ==
    \/ WorkerStart(w)
    \/ Dequeue(w)
    \/ LoopContinue(w)
    \/ process_submission(w)
    \/ stop_submission(w)

Next ==
    \/ Enqueue
    \/ SetCurrent
    \/ \E w \in Workers : worker_loop(w)

Spec == Init /\ [][Next]_vars

----------------------------------------------------------------------------
\* The decoder on its own: one message of any shape, a worker that starts
\* and dequeues it.

\* The integers a payload carries.
IntValues == -1..MaxSid

Actions == {"deploy", "stop", "DEPLOY", "Stop", "launch", ""}

DecoderPayloads ==
    {Raw(kind, "", "none", NoId) :
        kind \in {"none", "empty", "invalid", "int_overlong", "json_overlong",
                  "json_deep", "json_other"}}
    \cup {Raw("int", "", "int", n) : n \in IntValues}
    \cup {Raw("json_obj", action, "int", n) : action \in Actions, n \in IntValues}
    \cup {Raw("json_obj", action, idk, NoId) :
            action \in Actions, idk \in {"bad_type", "bad_text", "inf"}}

InitDecoder ==
    /\ settings \in SettingsSet
    /\ queue \in {<<raw>> : raw \in DecoderPayloads}
    /\ containers = {}
    /\ current = [p \in Projects |-> NoId]
    /\ persisted = [s \in Sids |-> NoDomain]
    /\ wk = [w \in AllWorkers |-> InitWorker]

NextDecoder == \E w \in Workers : WorkerStart(w) \/ Dequeue(w)

DecoderSpec == InitDecoder /\ [][NextDecoder]_vars

----------------------------------------------------------------------------
\* The worker in front of a backlog: the producers have pushed their
\* messages before the worker takes the first, and push none afterwards.

\* The length of the backlog.
Backlog == 2

BacklogPayloads ==
    {Raw("int", "", "int", s) : s \in Sids}
    \cup {Raw("json_obj", "stop", "int", MaxSid)}

InitBacklog ==
    /\ settings \in SettingsSet
    /\ queue \in [1..Backlog -> BacklogPayloads]
    /\ containers = {}
    /\ current = [p \in Projects |-> NoId]
    /\ persisted = [s \in Sids |-> NoDomain]
    /\ wk = [w \in AllWorkers |-> InitWorker]

NextBacklog ==
    \/ SetCurrent
    \/ \E w \in Workers : worker_loop(w)

BacklogSpec == InitBacklog /\ [][NextBacklog]_vars

\* The event loop runs the coroutine of the health gate whenever it can
\* take a step: every await in it (the GET with its timeout, the sleep)
\* returns.
FairBacklogSpec == BacklogSpec /\ \A w \in Workers : WF_vars(health_check(w))

----------------------------------------------------------------------------
\* The worker in front of a control plane that gives one and the same answer
\* to every PATCH.

ReporterSettings ==
    [token : {TRUE}, healthEnabled : BOOLEAN, retry : {MaxRetry},
     plane : {{r} : r \in Responses}, net : {NetEnvs}]

InitReporter ==
    /\ settings \in ReporterSettings
    /\ queue = <<>>
    /\ containers = {}
    /\ current = [p \in Projects |-> NoId]
    /\ persisted = [s \in Sids |-> NoDomain]
    /\ wk = [w \in AllWorkers |-> InitWorker]

ReporterSpec == InitReporter /\ [][Next]_vars

----------------------------------------------------------------------------
\* The worker in front of submissions that may have a domain persisted.

\* A persisted domain that is not the derived one.
Pinned(sid) == <<"pinned", sid>>

InitTarget ==
    /\ settings \in SettingsSet
    /\ queue = <<>>
    /\ containers = {}
    /\ current = [p \in Projects |-> NoId]
    /\ persisted \in [Sids -> {NoDomain} \cup {Pinned(s) : s \in Sids}]
    /\ \A s \in Sids : persisted[s] \in {NoDomain, Pinned(s)}
    /\ wk = [w \in AllWorkers |-> InitWorker]

TargetSpec == InitTarget /\ [][Next]_vars

----------------------------------------------------------------------------
\* Two worker processes on one queue and one engine, in front of a backlog
\* of deploy and stop messages for one submission.

PoolPayloads ==
    {Raw("int", "", "int", MaxSid), Raw("json_obj", "stop", "int", MaxSid)}

PoolSettings ==
    [token : {TRUE}, healthEnabled : BOOLEAN, retry : {MaxRetry - 1},
     plane : {Responses}, net : {NetEnvs}]

InitPool ==
    /\ settings \in PoolSettings
    /\ queue \in [1..Backlog -> PoolPayloads]
    /\ containers = {}
    /\ current = [p \in Projects |-> NoId]
    /\ persisted = [s \in Sids |-> NoDomain]
    /\ wk = [w \in AllWorkers |-> InitWorker]

NextPool ==
    \/ SetCurrent
    \/ \E w \in AllWorkers : worker_loop(w)

PoolSpec == InitPool /\ [][NextPool]_vars

----------------------------------------------------------------------------
\* One worker in front of a control plane that accepts every report and
\* makes a submission the live one of its project when it accepts its ONLINE
\* report, and of an engine whose removals never fail.

CutoverSettings ==
    [token : {TRUE}, healthEnabled : BOOLEAN, retry : {MaxRetry},
     plane : {{r \in Responses : ~update_status_fails(TRUE, r.transport, r.code)}},
     net : {NetEnvs}]

InitCutover ==
    /\ settings \in CutoverSettings
    /\ queue = <<>>
    /\ containers = {}
    /\ current = [p \in Projects |-> NoId]
    /\ persisted = [s \in Sids |-> NoDomain]
    /\ wk = [w \in AllWorkers |-> InitWorker]

\* The control plane has accepted the ONLINE report of the job of w and has
\* not yet made its submission the live one.
OnlinePending(w) ==
    /\ wk[w].pc = "cleanup_old"
    /\ current[wk[w].target.project_id] # wk[w].job.submission_id

\* The control plane handling the PATCH that carries ONLINE.
AcceptOnline ==
    /\ \E w \in Workers :
        /\ OnlinePending(w)
        /\ current' = [current EXCEPT ![wk[w].target.project_id] = wk[w].job.submission_id]
    /\ UNCHANGED <<settings, persisted, queue, containers, wk>>

\* A step of worker w in which the PATCH has been handled before it returns
\* and the removal it calls, if any, does not raise.
Undisturbed(w) ==
    /\ ~OnlinePending(w)
    /\ Len(wk'[w].calls) > Len(wk[w].calls) =>
          (wk'[w].calls[Len(wk'[w].calls)].op = "remove" =>
              ~wk'[w].calls[Len(wk'[w].calls)].raised)

NextCutover ==
    \/ Enqueue
    \/ AcceptOnline
    \/ \E w \in Workers : worker_loop(w) /\ Undisturbed(w)

CutoverSpec == InitCutover /\ [][NextCutover]_vars

----------------------------------------------------------------------------
\* The worker with one network configuration and one engine, in front of
\* one message: every launch finds the same.

\* As NetEnvs, the configured network having a name of its own.
NetworkEnvs ==
    [deployNetwork : {NoNetwork, "proxy"}, netExists : BOOLEAN,
     hostname : BOOLEAN, selfFound : BOOLEAN,
     selfNetworks : {<<>>, <<"traefik", "bridge">>}]

NetworkSettings ==
    [token : {TRUE}, healthEnabled : BOOLEAN, retry : {MaxRetry},
     plane : {Responses}, net : {{env} : env \in NetworkEnvs}]

InitNetwork ==
    /\ settings \in NetworkSettings
    /\ queue \in {<<raw>> : raw \in BacklogPayloads}
    /\ containers = {}
    /\ current = [p \in Projects |-> NoId]
    /\ persisted = [s \in Sids |-> NoDomain]
    /\ wk = [w \in AllWorkers |-> InitWorker]

NetworkSpec == InitNetwork /\ [][NextBacklog]_vars

\* The event loop runs _process_submission whenever it can take a step:
\* every engine call and every callback it awaits returns or raises.
FairJobSpec == NetworkSpec /\ \A w \in Workers : WF_vars(process_submission(w))

----------------------------------------------------------------------------
\* Properties of the deploy pipeline

Statuses(w) == [i \in 1..Len(wk[w].reports) |-> wk[w].reports[i].status]
Last(seq) == seq[Len(seq)]
Name(w) == build_container_name(wk[w].job.submission_id)

\* The job of worker w is a deploy job and its handler has returned.
DeployReturned(w) == wk[w].pc = "returned" /\ wk[w].job.action = "deploy"
\* ... without entering the exception handler.
DeploySucceeded(w) == DeployReturned(w) /\ wk[w].exc = "none"
\* The calls the job of w made to the engine from step `by`.
CallsBy(w, by) == {i \in 1..Len(wk[w].calls) : wk[w].calls[i].by = by}
Accepted(w, status) ==
    \E i \in 1..Len(wk[w].reports) :
        wk[w].reports[i].status = status /\ wk[w].reports[i].ok

\* C1: a deploy job that succeeds has reported exactly PULLING, DEPLOYING,
\* HEALTHCHECKING, ONLINE, in this order, each accepted, and the ONLINE report
\* carries build_project_domain(submission_id).
C1_SuccessReportsInOrder ==
    \A w \in Workers :
        DeploySucceeded(w) =>
            /\ Statuses(w) = <<"PULLING", "DEPLOYING", "HEALTHCHECKING", "ONLINE">>
            /\ \A i \in 1..4 : wk[w].reports[i].ok
            /\ wk[w].reports[4].domain = build_project_domain(wk[w].job.submission_id)

C1_Witness ==
    \E w \in Workers : DeploySucceeded(w) /\ wk[w].job.submission_id = 2

\* C2 as claimed: after a deploy job whose health gate failed, the last
\* status reported is FAILED and no container project-<submission_id> is left.
C2_ContainerGoneAfterHealthFailure ==
    \A w \in Workers :
        (DeployReturned(w) /\ wk[w].exc = "health") =>
            /\ Last(Statuses(w)) = "FAILED"
            /\ ~Exists(containers, Name(w))

\* C2 amended: after a deploy job whose health gate failed, the last status
\* reported is FAILED, the removal of project-<submission_id> was called, and
\* the container the job created is gone unless that removal call raised.
C2_ContainerGoneUnlessRemovalFailed ==
    \A w \in Workers :
        (DeployReturned(w) /\ wk[w].exc = "health") =>
            /\ Last(Statuses(w)) = "FAILED"
            /\ \E i \in CallsBy(w, "cleanup") :
                /\ wk[w].calls[i].name = Name(w)
                /\ (~wk[w].calls[i].raised =>
                        /\ ~Exists(containers, Name(w))
                        /\ \A c \in containers : c.creator # w)

C2_Witness ==
    \E w \in Workers :
        /\ DeployReturned(w) /\ wk[w].exc = "health"
        /\ wk[w].attempts = MaxRetry
        /\ \E i \in CallsBy(w, "cleanup") : ~wk[w].calls[i].raised

\* C3 as claimed: after a deploy job whose health gate failed, whatever
\* current_submission_id is, the container named for it that the job found
\* is still there, the very same container, and no cutover call was made.
C3_LiveContainerUntouchedOnHealthFailure ==
    \A w \in Workers :
        (DeployReturned(w) /\ wk[w].exc = "health"
            /\ wk[w].target.current_submission_id # NoId) =>
            /\ \A c \in wk[w].atStart :
                c.name = build_container_name(wk[w].target.current_submission_id)
                    => c \in containers
            /\ CallsBy(w, "cutover") = {}

\* C4: no two containers of the engine belong to the same submission id.
C4_OneContainerPerSubmission ==
    \A c1, c2 \in containers :
        c1.labels.submission_id = c2.labels.submission_id => c1 = c2

\* A replayed deploy: the job found project-<id> and has launched its own.
C4_Witness ==
    \E w \in Workers :
        /\ wk[w].job.action = "deploy"
        /\ Exists(wk[w].atStart, Name(w))
        /\ \E c \in containers : c.name = Name(w) /\ c.creator = w

\* C5 as claimed: the failure cleanup of a deploy job that never reached the
\* launch leaves every container the job found in place.
C5_CleanupSparesContainersNotCreated ==
    \A w \in Workers :
        (DeployReturned(w) /\ wk[w].exc # "none" /\ CallsBy(w, "launch") = {}) =>
            wk[w].atStart \subseteq containers

\* C6 as claimed: no failure of a job ends the worker loop.
C6_LoopSurvivesJobFailures ==
    \A w \in Workers : wk[w].pc # "crashed"

\* C7 as claimed: a deploy job whose submission is missing or has no image
\* reference touches no container and is reported FAILED.
C7_ResolutionFaultReportedFailed ==
    \A w \in Workers :
        wk[w].exc \in {"missing", "no_image"} =>
            /\ wk[w].calls = <<>>
            /\ containers = wk[w].atStart
            /\ wk[w].reports # <<>>
            /\ Last(Statuses(w)) = "FAILED"

C9_SelfCutoverIsNoOp ==
    \A w \in Workers :
        (DeploySucceeded(w)
            /\ wk[w].target.current_submission_id = wk[w].job.submission_id) =>
            /\ CallsBy(w, "cutover") = {}
            /\ \E c \in containers : c.name = Name(w) /\ c.creator = w

C9_Witness ==
    \E w \in Workers :
        /\ DeploySucceeded(w)
        /\ wk[w].target.current_submission_id = wk[w].job.submission_id

\* C10: once the removal of the old container has failed in the cutover, the
\* job has returned outside the exception handler: no cleanup call, no FAILED
\* report, ONLINE as the last status, and the new container still there.
C10_CutoverFailureNotFatal ==
    \A w \in Workers :
        (\E i \in CallsBy(w, "cutover") : wk[w].calls[i].raised) =>
            /\ wk[w].pc = "returned"
            /\ wk[w].exc = "none"
            /\ CallsBy(w, "cleanup") = {}
            /\ Last(Statuses(w)) = "ONLINE"
            /\ \A i \in 1..Len(wk[w].reports) : wk[w].reports[i].status # "FAILED"
            /\ \E c \in containers : c.name = Name(w) /\ c.creator = w

C10_Witness ==
    \E w \in Workers :
        /\ \E i \in CallsBy(w, "cutover") : wk[w].calls[i].raised
        /\ Exists(containers, build_container_name(wk[w].target.current_submission_id))

\* C11: a stop job makes no status callback at any point; when its handler
\* has returned it has made exactly one engine call, the removal of
\* project-<submission_id>, outside any exception path, and unless that call
\* raised no container of that name is left.
C11_StopRemovesWithoutCallback ==
    \A w \in Workers :
        wk[w].job.action = "stop" =>
            /\ wk[w].reports = <<>>
            /\ wk[w].pc = "returned" =>
                /\ wk[w].exc = "none"
                /\ Len(wk[w].calls) = 1
                /\ wk[w].calls[1].op = "remove"
                /\ wk[w].calls[1].name = Name(w)
                /\ ~wk[w].calls[1].raised => ~Exists(containers, Name(w))

\* A stop job has removed the container it found.
C11_Witness ==
    \E w \in Workers :
        /\ wk[w].job.action = "stop" /\ wk[w].pc = "returned"
        /\ Exists(wk[w].atStart, Name(w))
        /\ ~Exists(containers, Name(w))

\* The strict callbacks of the job of w that failed.
FailedCallbacks(w) ==
    {i \in 1..Len(wk[w].reports) :
        wk[w].reports[i].status # "FAILED" /\ ~wk[w].reports[i].ok}

Pipeline == <<"PULLING", "DEPLOYING", "HEALTHCHECKING", "ONLINE">>

\* What C12 and its amendment share.  When the k-th strict callback of a
\* deploy job has failed: the job is in its exception handler, the reports
\* are the first k of the pipeline, followed by nothing but FAILED, no step
\* after the k-th report has run, and once the handler has returned FAILED
\* was sent and the removal of project-<submission_id> was called.
StatusFailureStopsPipeline(w) ==
    \A k \in FailedCallbacks(w) :
        /\ wk[w].exc = "status"
        /\ wk[w].pc \in {"fail_remove", "fail_report", "returned"}
        /\ k <= 4
        /\ \A i \in 1..k : wk[w].reports[i].status = Pipeline[i]
        /\ \A i \in 1..(k - 1) : wk[w].reports[i].ok
        /\ Len(wk[w].reports) <= k + 1
        /\ k = 1 => CallsBy(w, "pull") = {}
        /\ k <= 2 => CallsBy(w, "launch") = {}
        /\ k <= 3 => wk[w].attempts = 0
        /\ CallsBy(w, "cutover") = {}
        /\ wk[w].pc = "returned" =>
            /\ Len(wk[w].reports) = k + 1
            /\ wk[w].reports[k + 1].status = "FAILED"
            /\ \E i \in CallsBy(w, "cleanup") : wk[w].calls[i].name = Name(w)

\* C12 as claimed: a failed strict callback stops the pipeline, FAILED is
\* sent, and the job's container is removed: none is left when the handler
\* has returned.
C12_StatusFailureRemovesContainer ==
    \A w \in Workers :
        /\ StatusFailureStopsPipeline(w)
        /\ (FailedCallbacks(w) # {} /\ wk[w].pc = "returned") =>
                ~Exists(containers, Name(w))

\* C12 amended: ... and the job's container is removed unless the removal
\* call itself raised.
C12_StatusFailureIsPipelineFailure ==
    \A w \in Workers :
        /\ StatusFailureStopsPipeline(w)
        /\ (FailedCallbacks(w) # {} /\ wk[w].pc = "returned") =>
                \E i \in CallsBy(w, "cleanup") :
                    ~wk[w].calls[i].raised => ~Exists(containers, Name(w))

\* The ONLINE callback failed and the container the job had launched is gone.
C12_Witness ==
    \E w \in Workers :
        /\ 4 \in FailedCallbacks(w)
        /\ wk[w].pc = "returned"
        /\ ~Exists(containers, Name(w))

\* C13: once the FAILED report of a deploy job has been attempted, whether
\* the callback succeeded or failed, the handler has returned normally with
\* the exception that caused the failure path still the only one, and the
\* loop can take its next iteration.
C13_SafeReporterNeverPropagates ==
    \A w \in Workers :
        (wk[w].reports # <<>> /\ Last(wk[w].reports).status = "FAILED") =>
            /\ wk[w].pc = "returned"
            /\ wk[w].exc \in {"status", "pull", "network", "start", "health"}
            /\ ENABLED LoopContinue(w)

\* The FAILED callback of a deploy job failed.
C13_Witness ==
    \E w \in Workers :
        /\ wk[w].reports # <<>>
        /\ Last(wk[w].reports).status = "FAILED"
        /\ ~Last(wk[w].reports).ok
        /\ wk[w].pc = "returned"

\* C14: when the removal in the failure path of a deploy job has raised, the
\* job is about to send its FAILED report or has returned, and once it has
\* returned the last report it sent is FAILED with the message and the error
\* code worker_failed.
C14_RemovalFailureStillReportsFailed ==
    \A w \in Workers :
        (\E i \in CallsBy(w, "cleanup") : wk[w].calls[i].raised) =>
            /\ wk[w].pc \in {"fail_report", "returned"}
            /\ wk[w].pc = "returned" =>
                /\ wk[w].reports # <<>>
                /\ Last(wk[w].reports).status = "FAILED"
                /\ Last(wk[w].reports).status_message = StatusMessage("FAILED")
                /\ Last(wk[w].reports).error_code = "worker_failed"

\* The removal raised, left the container behind, and FAILED was sent.
C14_Witness ==
    \E w \in Workers :
        /\ \E i \in CallsBy(w, "cleanup") : wk[w].calls[i].raised
        /\ wk[w].pc = "returned"
        /\ Exists(containers, Name(w))
        /\ Last(wk[w].reports).status = "FAILED"

\* The image pull of the job of w raised.
PullFailed(w) == \E i \in CallsBy(w, "pull") : wk[w].calls[i].raised
\* An engine call of the launch of the job of w raised.
StartFailed(w) == \E i \in CallsBy(w, "launch") : wk[w].calls[i].raised

\* What C15 and its amendment share.  After a pull failure no launch call
\* and no health check is made and the reports of the finished job are
\* exactly PULLING, FAILED; after a start failure no health check is made and
\* they are exactly PULLING, DEPLOYING, FAILED; in both cases the failure
\* path called the removal of project-<submission_id>.
InfrastructureFaultHandled(w) ==
    /\ PullFailed(w) =>
        /\ wk[w].exc = "pull"
        /\ CallsBy(w, "launch") = {}
        /\ wk[w].attempts = 0
        /\ wk[w].pc = "returned" => Statuses(w) = <<"PULLING", "FAILED">>
    /\ StartFailed(w) =>
        /\ wk[w].exc = "start"
        /\ wk[w].attempts = 0
        /\ wk[w].pc = "returned" => Statuses(w) = <<"PULLING", "DEPLOYING", "FAILED">>
    /\ (PullFailed(w) \/ StartFailed(w)) =>
        /\ wk[w].pc \in {"fail_remove", "fail_report", "returned"}
        /\ CallsBy(w, "cutover") = {}
        /\ wk[w].pc = "returned" =>
            \E i \in CallsBy(w, "cleanup") : wk[w].calls[i].name = Name(w)

\* C15 as claimed: ... and in both cases no container
\* project-<submission_id> exists when the job finishes.
C15_NoContainerAfterInfrastructureFault ==
    \A w \in Workers :
        /\ InfrastructureFaultHandled(w)
        /\ ((PullFailed(w) \/ StartFailed(w)) /\ wk[w].pc = "returned") =>
                ~Exists(containers, Name(w))

\* C15 amended: ... and in both cases no container project-<submission_id>
\* exists when the job finishes, unless the removal call of the failure path
\* itself raised.
C15_InfrastructureFaultCleansUp ==
    \A w \in Workers :
        /\ InfrastructureFaultHandled(w)
        /\ ((PullFailed(w) \/ StartFailed(w)) /\ wk[w].pc = "returned") =>
                \E i \in CallsBy(w, "cleanup") :
                    ~wk[w].calls[i].raised => ~Exists(containers, Name(w))

\* The start of the created container failed, the job has finished and the
\* container it had created is gone.
C15_Witness ==
    \E w \in Workers :
        /\ StartFailed(w)
        /\ wk[w].pc = "returned"
        /\ ~Exists(wk[w].atStart, Name(w))
        /\ \E i \in CallsBy(w, "launch") : wk[w].calls[i].op = "run"
        /\ ~Exists(containers, Name(w))

\* C16: when network resolution has failed in a deploy job, the launch step
\* has made no engine call, no health check follows, and the containers are
\* those the job found when it started until the failure path removes
\* project-<submission_id>: none was created, and none was removed by the
\* launch step.
C16_NoNetworkNoPartialState ==
    \A w \in Workers :
        wk[w].exc = "network" =>
            /\ wk[w].pc \in {"fail_remove", "fail_report", "returned"}
            /\ Statuses(w)[1] = "PULLING" /\ Statuses(w)[2] = "DEPLOYING"
            /\ CallsBy(w, "launch") = {}
            /\ wk[w].attempts = 0
            /\ wk[w].pc = "fail_remove" => containers = wk[w].atStart
            /\ containers \subseteq wk[w].atStart
            /\ \A c \in wk[w].atStart \ containers :
                    /\ c.name = Name(w)
                    /\ CallsBy(w, "cleanup") # {}

\* Network resolution failed while a container project-<submission_id>
\* existed, and the launch step left it in place.
C16_Witness ==
    \E w \in Workers :
        /\ wk[w].exc = "network"
        /\ wk[w].pc = "fail_remove"
        /\ Exists(containers, Name(w))

\* Worker w takes the message at the head of the queue in this step.
Dequeues(w) == wk[w].pc = "idle" /\ queue # <<>> /\ queue' = Tail(queue)

\* The worker between two jobs.
Idle == [InitWorker EXCEPT !.pc = "idle"]

\* C17: the decoder never raises: no worker loop is ever ended by an
\* exception of the decoder.
C17_DecoderNeverRaises ==
    \A w \in Workers : ~(wk[w].pc = "crashed" /\ wk[w].exc = "decode")

\* A message that is not a bare integer and not a JSON object with a
\* deploy or stop action and an integer submission_id.
Malformed(raw) ==
    \/ raw.kind \in {"none", "empty", "invalid", "json_other"}
    \/ /\ raw.kind = "json_obj"
       /\ \/ Lower(raw.action) \notin {"deploy", "stop"}
          \/ raw.idk # "int"

\* C18: dequeuing a malformed message changes nothing but the queue: the
\* worker is idle as before, with no engine call and no callback, no
\* container has changed, and the jobs after it find the state they would
\* have found without it.
C18_MalformedMessagesAreDropped ==
    [][\A w \in Workers :
          (Dequeues(w) /\ Malformed(Head(queue))) =>
                /\ wk'[w] = Idle
                /\ containers' = containers
                /\ current' = current]_vars

\* C19: dequeuing a bare decimal integer N starts the deploy job of
\* submission N.
C19_BareIntegerDecodesToDeploy ==
    [][\A w \in Workers :
          (Dequeues(w) /\ Head(queue).kind \in {"int", "int_overlong"}) =>
                /\ wk'[w].job = [action |-> "deploy", submission_id |-> Head(queue).n]
                /\ wk'[w].pc = "load"]_vars

\* The submission_id of a JSON object can be coerced to an integer.
Coercible(raw) == raw.idk = "int"

\* C20: dequeuing a JSON payload starts a job exactly when the payload is
\* an object whose action is deploy or stop in any letter case and whose
\* submission_id can be coerced to an integer, the job having the lower-cased
\* action and the integer id; every other JSON payload leaves the worker
\* idle.
C20_JsonObjectDecoding ==
    [][\A w \in Workers :
          (Dequeues(w) /\ Head(queue).kind \in
                {"json_obj", "json_other", "json_overlong", "json_deep"}) =>
                LET raw == Head(queue)
                IN IF /\ raw.kind = "json_obj"
                      /\ Lower(raw.action) \in {"deploy", "stop"}
                      /\ Coercible(raw)
                   THEN /\ wk'[w].job = [action |-> Lower(raw.action),
                                         submission_id |-> raw.n]
                        /\ wk'[w].pc \in {"load", "stop"}
                   ELSE wk'[w] = Idle]_vars

\* The last answer the running health gate of w has seen is a 200.
Passed(w) == wk[w].responses # <<>> /\ Last(wk[w].responses) = "200"

\* C21: while the enabled health gate runs with `retries` = R it has seen at
\* most R answers and no 200 before the last one; it returns success only on
\* a 200, and then at once, with no further attempt; it returns failure only
\* after R answers none of which is a 200; and after fewer than R answers
\* without a 200 it goes on, whether the last was a transport error or a
\* response other than 200.
C21_GatePassesOnFirst200WithinRetries ==
    [][\A w \in Workers :
          (wk[w].pc = "health_check" /\ settings.healthEnabled) =>
              LET seen == wk[w].responses
              IN /\ Len(seen) <= settings.retry
                 /\ \A i \in 1..(Len(seen) - 1) : seen[i] # "200"
                 /\ Passed(w) => \/ wk'[w] = wk[w]
                                 \/ /\ wk'[w].pc = "report_online"
                                    /\ wk'[w].attempts = wk[w].attempts
                 /\ wk'[w].pc = "report_online" => Passed(w)
                 /\ wk'[w].pc = "fail_remove" =>
                        ~Passed(w) /\ Len(seen) = settings.retry
                 /\ (~Passed(w) /\ Len(seen) < settings.retry) =>
                        wk'[w].pc = "health_check"]_vars

\* With `retries` = 3 the gate has seen 500, 500, 200.
C21_Witness ==
    \E w \in Workers :
        /\ wk[w].pc = "health_check"
        /\ settings.healthEnabled
        /\ settings.retry = Len(wk[w].responses)
        /\ wk[w].responses = <<"500", "500", "200">>

\* C22: a worker takes a message off the queue only when it has no job in
\* progress (no job, no call and no report of a job), and every step in
\* which it makes an engine call or a status callback belongs to the job it
\* has in progress and takes nothing off the queue: the calls and callbacks
\* of a job all come before the next dequeue.
C22_OneJobAtATime ==
    [][\A w \in Workers :
          /\ (queue # <<>> /\ queue' = Tail(queue) /\ wk'[w] # wk[w]) =>
                wk[w] = Idle
          /\ (\/ Len(wk'[w].calls) > Len(wk[w].calls)
              \/ Len(wk'[w].reports) > Len(wk[w].reports)) =>
                /\ wk[w].job # NoJob
                /\ wk'[w].job = wk[w].job
                /\ queue' = queue]_vars

\* The first job of the backlog has been finished (its container is there)
\* and the idle worker has the next deploy message waiting.
C22_Witness ==
    \E w \in Workers :
        /\ wk[w] = Idle
        /\ queue # <<>>
        /\ parse_queue_item(Head(queue)).action = "deploy"
        /\ containers # {}

\* C23: as long as a deploy job has not sent its ONLINE report, the
\* container it has created does not have routing enabled for the reverse
\* proxy.
C23_NewContainerUnroutedBeforeOnline ==
    \A w \in Workers :
        (wk[w].job.action = "deploy" /\ \A i \in 1..Len(wk[w].reports) :
                                            wk[w].reports[i].status # "ONLINE") =>
            \A c \in containers :
                (c.name = Name(w) /\ c.creator = w) => ~c.labels.enable

\* What C24 and its amendment share: the statuses a job reports are the
\* first ones of PULLING, DEPLOYING, HEALTHCHECKING, ONLINE in that order,
\* followed by at most one FAILED, which is then the last report.
LifecycleOrder(w) ==
    \A i \in 1..Len(wk[w].reports) :
        /\ \/ i <= Len(Pipeline) /\ wk[w].reports[i].status = Pipeline[i]
           \/ i = Len(wk[w].reports) /\ wk[w].reports[i].status = "FAILED"
        /\ i < Len(wk[w].reports) => wk[w].reports[i].status # "FAILED"

\* C24 as claimed: ... and no report follows an ONLINE report.
C24_NoReportAfterTerminalReport ==
    \A w \in Workers :
        /\ LifecycleOrder(w)
        /\ \A i \in 1..(Len(wk[w].reports) - 1) : wk[w].reports[i].status # "ONLINE"

\* C24 amended: ... and no report follows an ONLINE report whose callback
\* succeeded; after an ONLINE report whose callback failed the one report
\* that follows is FAILED.
C24_NoReportAfterAcceptedTerminalReport ==
    \A w \in Workers :
        /\ LifecycleOrder(w)
        /\ \A i \in 1..(Len(wk[w].reports) - 1) :
                wk[w].reports[i].status = "ONLINE" => ~wk[w].reports[i].ok

\* The ONLINE report succeeded, the cutover removed the old container, and
\* the job returned with ONLINE as its last report.
C24_Witness ==
    \E w \in Workers :
        /\ DeploySucceeded(w)
        /\ Statuses(w) = Pipeline
        /\ Last(wk[w].reports).ok
        /\ CallsBy(w, "cutover") # {}

\* The PATCH got a response and its status code is a 2xx.
Is2xx(r) == ~r.transport /\ r.code >= 200 /\ r.code <= 299

\* C25: in front of a control plane that gives one answer to every PATCH,
\* a status callback of a job succeeds exactly when that answer is a 2xx
\* response.
C25_Only2xxIsSuccess ==
    \A w \in Workers :
        \A i \in 1..Len(wk[w].reports) :
            \A r \in settings.plane :
                settings.plane = {r} => (wk[w].reports[i].ok <=> Is2xx(r))

\* C26: the domain of the target a deploy job has resolved is the domain
\* persisted on its submission when there is one, and the derived one
\* otherwise.
C26_PersistedDomainPreferred ==
    \A w \in Workers :
        wk[w].target # NoTarget =>
            wk[w].target.domain =
                IF persisted[wk[w].target.submission_id] # NoDomain
                THEN persisted[wk[w].target.submission_id]
                ELSE build_project_domain(wk[w].target.submission_id)

\* C27: without the worker credential no step takes a message off the
\* queue or changes a container, and no worker gets past its startup: it is
\* not started yet or its loop has returned, with no job.
C27_MissingCredentialStopsWorker ==
    [][~settings.token =>
          /\ \/ queue' = queue
             \/ \E raw \in QueuePayloads : queue' = Append(queue, raw)
          /\ containers' = containers
          /\ \A w \in Workers :
                /\ wk'[w].pc \in {"off", "exited"}
                /\ wk'[w].job = NoJob
                /\ wk'[w].calls = <<>>
                /\ wk'[w].reports = <<>>]_vars

\* The loop has returned at startup and a message stays in the queue.
C27_Witness ==
    \E w \in Workers :
        /\ ~settings.token
        /\ wk[w].pc = "exited"
        /\ queue # <<>>
        /\ parse_queue_item(Head(queue)).action = "deploy"

\* C28: a job makes at most `retries` GET attempts, with `retries` = 0 it
\* makes none and does not get to the ONLINE report, and a health gate that
\* has been entered is left.
C28_GateTerminatesWithinBudget ==
    /\ [](\A w \in Workers :
            /\ wk[w].attempts <= settings.retry
            /\ Len(wk[w].responses) <= wk[w].attempts
            /\ (settings.healthEnabled /\ settings.retry = 0) =>
                    /\ wk[w].attempts = 0
                    /\ wk[w].pc \notin {"report_online", "cleanup_old"}
                    /\ \A i \in 1..Len(wk[w].reports) :
                            wk[w].reports[i].status # "ONLINE")
    /\ \A w \in Workers :
            (wk[w].pc = "health_check") ~> (wk[w].pc # "health_check")

\* With `retries` = 0 the gate has failed without an attempt.
C28_Witness ==
    \E w \in Workers :
        /\ settings.healthEnabled
        /\ settings.retry = 0
        /\ wk[w].exc = "health"
        /\ wk[w].attempts = 0
        /\ wk[w].pc = "returned"

\* containers.run of the job of w returned.
LaunchSucceeded(w) ==
    \E i \in CallsBy(w, "launch") : wk[w].calls[i].op = "run" /\ ~wk[w].calls[i].raised

\* C29: with the health gate disabled a job makes no GET and never fails
\* at the gate, and a deploy job that has returned after a launch that
\* succeeded and reports that all succeeded has reported PULLING, DEPLOYING,
\* HEALTHCHECKING, ONLINE and has not entered its exception handler.
C29_DisabledGatePasses ==
    \A w \in Workers :
        ~settings.healthEnabled =>
            /\ wk[w].attempts = 0
            /\ wk[w].responses = <<>>
            /\ wk[w].exc # "health"
            /\ (/\ DeployReturned(w)
                /\ LaunchSucceeded(w)
                /\ \A i \in 1..Len(wk[w].reports) : wk[w].reports[i].ok) =>
                    /\ Statuses(w) = Pipeline
                    /\ wk[w].exc = "none"

\* With the gate disabled a deploy job has ended ONLINE.
C29_Witness ==
    \E w \in Workers :
        /\ ~settings.healthEnabled
        /\ DeploySucceeded(w)
        /\ LaunchSucceeded(w)
        /\ Statuses(w) = Pipeline

\* The job of w is past the launch step without a failure of the launch.
Launched(w) ==
    wk[w].pc \in {"start_run", "report_healthchecking", "health_check",
                  "report_online", "cleanup_old"}
    \/ wk[w].exc = "health"
    \/ LaunchSucceeded(w)

\* C30: where every launch finds the environment env: with a network name
\* configured that exists, a job launches on that network and on no other
\* and never fails for want of a network; with one configured that does not
\* exist, no job gets past the resolution, whatever self-inspection would
\* have found; and with none configured a job launches on nothing but the
\* first network of the worker's own container.
C30_NoFallThroughBetweenStrategies ==
    \A w \in Workers :
        \A env \in settings.net :
            settings.net = {env} =>
                /\ (env.deployNetwork # NoNetwork /\ env.netExists) =>
                        /\ wk[w].network \in {NoNetwork, env.deployNetwork}
                        /\ wk[w].exc # "network"
                /\ (env.deployNetwork # NoNetwork /\ ~env.netExists) =>
                        /\ wk[w].network = NoNetwork
                        /\ ~Launched(w)
                        /\ CallsBy(w, "launch") = {}
                /\ env.deployNetwork = NoNetwork =>
                        \/ wk[w].network = NoNetwork
                        \/ /\ env.hostname /\ env.selfFound
                           /\ env.selfNetworks # <<>>
                           /\ wk[w].network = Head(env.selfNetworks)

\* The configured network does not exist, self-inspection would have found
\* one, and the job has failed at the resolution.
C30_Witness ==
    \E w \in Workers :
        \E env \in settings.net :
            /\ settings.net = {env}
            /\ env.deployNetwork # NoNetwork /\ ~env.netExists
            /\ env.hostname /\ env.selfFound /\ env.selfNetworks # <<>>
            /\ wk[w].exc = "network"
            /\ wk[w].pc = "returned"

\* Self-inspection in the environment env finds a network.
SelfInspectionFinds(env) ==
    env.hostname /\ env.selfFound /\ env.selfNetworks # <<>>

\* C31: where every launch finds the environment env and no network name is
\* configured: when HOSTNAME is set, the worker's container is found and it
\* has networks, a job launches on the first of them and does not fail for
\* want of a network; otherwise no job gets to the launch; and whatever the
\* configuration, the container a job has created is attached to the network
\* the job resolved and has it in its traefik.docker.network label.
C31_SelfInspectionFirstNetwork ==
    \A w \in Workers :
        \A env \in settings.net :
            settings.net = {env} =>
                /\ (env.deployNetwork = NoNetwork /\ SelfInspectionFinds(env)) =>
                        /\ wk[w].network \in {NoNetwork, env.selfNetworks[1]}
                        /\ wk[w].exc # "network"
                /\ (env.deployNetwork = NoNetwork /\ ~SelfInspectionFinds(env)) =>
                        /\ wk[w].network = NoNetwork
                        /\ ~Launched(w)
                        /\ CallsBy(w, "launch") = {}
                /\ \A c \in containers :
                        c.creator = w =>
                            /\ wk[w].network # NoNetwork
                            /\ c.network = wk[w].network
                            /\ c.labels.network = wk[w].network

\* With no name configured a job has launched its container on the first
\* network of the worker's own container.
C31_Witness ==
    \E w \in Workers :
        \E env \in settings.net :
            /\ settings.net = {env}
            /\ env.deployNetwork = NoNetwork
            /\ Len(env.selfNetworks) > 1
            /\ \E c \in containers :
                    /\ c.creator = w
                    /\ c.name = Name(w)
                    /\ c.network = env.selfNetworks[1]
                    /\ c.labels.network = env.selfNetworks[1]

\* The i-th report of the job of w is `status` and its callback succeeded.
Acknowledged(w, i, status) ==
    /\ Len(wk[w].reports) >= i
    /\ wk[w].reports[i].status = status
    /\ wk[w].reports[i].ok

\* The pull of the job of w returned.
PullSucceeded(w) ==
    \E i \in CallsBy(w, "pull") : ~wk[w].calls[i].raised

\* C32: a job is at the pull, or has made a pull call, only with PULLING
\* acknowledged; it is at the launch, or has made a launch call, only with
\* the pull returned and DEPLOYING acknowledged; it is at the health gate, or
\* has made a GET, only with the launch returned and HEALTHCHECKING
\* acknowledged; and it gets to the ONLINE report only by a step of the
\* health gate that is disabled or has just seen a 200.
C32_StepsGatedOnReports ==
    /\ [](\A w \in Workers :
            /\ (wk[w].pc = "pull" \/ CallsBy(w, "pull") # {}) =>
                    Acknowledged(w, 1, "PULLING")
            /\ (wk[w].pc \in {"start_remove", "start_run"}
                \/ CallsBy(w, "launch") # {} \/ wk[w].exc = "network") =>
                    /\ PullSucceeded(w)
                    /\ Acknowledged(w, 1, "PULLING")
                    /\ Acknowledged(w, 2, "DEPLOYING")
            /\ (wk[w].pc = "health_check" \/ wk[w].attempts > 0) =>
                    /\ LaunchSucceeded(w)
                    /\ Acknowledged(w, 3, "HEALTHCHECKING")
            /\ (wk[w].pc = "report_online"
                \/ \E i \in 1..Len(wk[w].reports) : wk[w].reports[i].status = "ONLINE") =>
                    /\ LaunchSucceeded(w)
                    /\ Acknowledged(w, 3, "HEALTHCHECKING")
                    /\ settings.healthEnabled => wk[w].attempts > 0)
    /\ [][\A w \in Workers :
            (wk'[w].pc = "report_online" /\ wk[w].pc # "report_online") =>
                /\ wk[w].pc = "health_check"
                /\ ~settings.healthEnabled \/ Passed(w)]_vars

\* With the gate enabled a job has got to the ONLINE report.
C32_Witness ==
    \E w \in Workers :
        /\ wk[w].pc = "report_online"
        /\ settings.healthEnabled
        /\ wk[w].attempts > 1
        /\ Acknowledged(w, 3, "HEALTHCHECKING")

\* The last report of the job of w is ONLINE or FAILED.
TerminalReportAttempted(w) ==
    /\ wk[w].reports # <<>>
    /\ Last(wk[w].reports).status \in {"ONLINE", "FAILED"}

\* C33: a deploy job that has passed target resolution returns, and a
\* deploy job that has returned has ONLINE or FAILED as the last report it
\* attempted.
C33_JobEndsWithTerminalReport ==
    /\ [](\A w \in Workers : DeployReturned(w) => TerminalReportAttempted(w))
    /\ \A w \in Workers :
            (wk[w].pc = "report_pulling") ~>
                (DeployReturned(w) /\ TerminalReportAttempted(w))

\* A job has returned after its FAILED callback failed too.
C33_Witness ==
    \E w \in Workers :
        /\ DeployReturned(w)
        /\ Last(wk[w].reports).status = "FAILED"
        /\ ~Last(wk[w].reports).ok
        /\ Len(wk[w].reports) > 3

\* No removal the job of w has called raised.
RemovalsSucceeded(w) ==
    \A i \in 1..Len(wk[w].calls) :
        wk[w].calls[i].op = "remove" => ~wk[w].calls[i].raised

\* C34: when a deploy job whose removals all succeeded has returned, the
\* container project-<submission_id> exists exactly when the ONLINE callback
\* of the job succeeded, and does not exist when the last report is FAILED.
C34_ContainerExistsIffOnlineAccepted ==
    \A w \in Workers :
        (DeployReturned(w) /\ RemovalsSucceeded(w)) =>
            /\ Exists(containers, Name(w)) <=> Acknowledged(w, 4, "ONLINE")
            /\ Last(wk[w].reports).status = "FAILED" => ~Exists(containers, Name(w))

\* The ONLINE callback failed: the container the job had launched and found
\* healthy has been removed and the last report is FAILED.
C34_Witness ==
    \E w \in Workers :
        /\ DeployReturned(w)
        /\ RemovalsSucceeded(w)
        /\ LaunchSucceeded(w)
        /\ 4 \in FailedCallbacks(w)
        /\ Last(wk[w].reports).status = "FAILED"
        /\ ~Exists(containers, Name(w))

\* In this step worker v, on a deploy job for the submission of the job of
\* w, calls a removal from its launch or from its exception handler.
RemovesFor(v, w) ==
    /\ wk[v].job = wk[w].job
    /\ Len(wk'[v].calls) > Len(wk[v].calls)
    /\ Last(wk'[v].calls).op = "remove"
    /\ Last(wk'[v].calls).by \in {"launch", "cleanup"}

\* C35: with two workers, the step in which the ONLINE callback of a deploy
\* job succeeds is taken with the container project-<submission_id> in
\* place, and while a worker holds a job whose ONLINE callback succeeded no
\* other worker's deploy job for the same submission removes that container
\* from its launch or its exception handler.
C35_OnlineContainerSafeFromOtherWorkers ==
    [][\A w \in AllWorkers :
          /\ (~Acknowledged(w, 4, "ONLINE") /\ Acknowledged(w, 4, "ONLINE")') =>
                Exists(containers, Name(w))
          /\ Acknowledged(w, 4, "ONLINE") =>
                \A v \in AllWorkers \ {w} :
                    (RemovesFor(v, w) /\ Exists(containers, Name(w))) =>
                        Exists(containers', Name(w))]_vars

\* The containers of the submissions of project p.
ContainersOf(p) == {c \in containers : c.labels.project_id = p}

\* C36: with one worker, no container at the start, a control plane that
\* accepts every report and makes a submission the live one exactly when it
\* accepts its ONLINE report, and removals that succeed, at most one
\* container of the submissions of one project exists whenever a job has
\* completed.
C36_OneContainerPerProject ==
    \A w \in Workers :
        wk[w].pc \in {"returned", "idle"} =>
            \A p \in Projects : Cardinality(ContainersOf(p)) <= 1

\* A deploy job has replaced the live submission of its project: it returned
\* after ONLINE, its cutover removed the container of the submission that was
\* live, and its own container is the one of the project.
C36_Witness ==
    \E w \in Workers :
        /\ DeploySucceeded(w)
        /\ Acknowledged(w, 4, "ONLINE")
        /\ \E i \in CallsBy(w, "cutover") :
              /\ ~wk[w].calls[i].raised
              /\ wk[w].calls[i].name # Name(w)
        /\ {c.name : c \in ContainersOf(wk[w].target.project_id)} = {Name(w)}
        /\ current[wk[w].target.project_id] = wk[w].job.submission_id

\* Worker w is inside a job: it has dequeued a deploy or a stop message and
\* its handler has not returned.
InJob(w) == wk[w].pc \notin {"off", "idle", "returned", "exited", "crashed"}

\* The names a job may remove: its own, and for a deploy job the one of the
\* live submission of its snapshot.
RemovalScope(w) ==
    IF wk[w].job.action = "stop"
    THEN {Name(w)}
    ELSE {Name(w)} \cup
         {build_container_name(wk[w].target.current_submission_id) :
             x \in {wk[w].target.current_submission_id} \ {NoId}}

\* C37: a step of the handler of a job creates no container but project-<submission_id>,
\* and only in a deploy job; it removes no container but those named
\* project-<submission_id> or, in a deploy job, project-<current_submission_id
\* of the job's snapshot>; every other container is the same after the step.
C37_OperationsScopedByName ==
    [][\A w \in Workers :
          (InJob(w) /\ wk'[w] # wk[w]) =>
              /\ \A c \in containers' \ containers :
                    c.name = Name(w) /\ wk[w].job.action = "deploy"
              /\ \A c \in containers \ containers' :
                    c.name \in RemovalScope(w)]_vars

\* A deploy job has launched its container and returned with ONLINE next to
\* the container of another submission, which is not the live one of its
\* snapshot and is still there.
C37_Witness ==
    \E w \in Workers :
        /\ DeploySucceeded(w)
        /\ Acknowledged(w, 4, "ONLINE")
        /\ Exists(containers, Name(w))
        /\ \E c \in containers : c.name \notin RemovalScope(w)

\* The live submission of the project of the job of w, as the control plane
\* holds it; it does not change between the resolution step of a job and its
\* cutover.
LiveOf(w) == current[ProjectOf(wk[w].job.submission_id)]

\* C38: the cutover of a deploy job acts on the current_submission_id its
\* own resolution step has read: it removes project-<that id> when that id
\* is set and is not the job's submission, and calls no removal otherwise,
\* whatever the live submission was during earlier jobs.
C38_CutoverUsesOwnSnapshot ==
    [][\A w \in Workers :
          (wk[w].pc = "cleanup_old" /\ wk'[w].pc = "returned") =>
              IF LiveOf(w) = NoId \/ LiveOf(w) = wk[w].job.submission_id
              THEN /\ wk'[w].calls = wk[w].calls
                   /\ containers' = containers
              ELSE /\ Len(wk'[w].calls) = Len(wk[w].calls) + 1
                   /\ Last(wk'[w].calls).by = "cutover"
                   /\ Last(wk'[w].calls).name = build_container_name(LiveOf(w))]_vars

\* A cutover has called the removal of the container of the submission that
\* was live when the job was resolved; the engine raised, so the container an
\* earlier job has launched is still there next to the new one.
C38_Witness ==
    \E w \in Workers :
        /\ DeploySucceeded(w)
        /\ wk[w].target.current_submission_id = LiveOf(w)
        /\ \E i \in CallsBy(w, "cutover") :
              /\ wk[w].calls[i].name = build_container_name(LiveOf(w))
              /\ wk[w].calls[i].name # Name(w)
              /\ wk[w].calls[i].raised
        /\ Cardinality(ContainersOf(wk[w].target.project_id)) > 1

====
